---- MODULE Spec2Model ----
(***************************************************************************)
(* A state-machine model of src/main.rs: a benchmark that times batches of *)
(* NUM_PARALLEL array comparisons under three dispatch strategies          *)
(*   test        - sequentially on the calling thread                      *)
(*   async_test  - spawned on a tokio current_thread runtime               *)
(*   async_test2 - spawned on a tokio multi_thread runtime                 *)
(* The main thread, the spawned tasks and the runtime workers are the      *)
(* processes; the comparison primitive (arrow's eq_dyn), the clock and the *)
(* runtime builder are the environment, whose answers are drawn with \E.   *)
(***************************************************************************)
EXTENDS Integers, Sequences, FiniteSets, TLC

(* ---- bounds: the program's compile-time sizes, scaled down ---- *)
\* NUM_RUNS is 10_000_000 in the source; the model runs 1..MaxRuns iterations
MaxRuns == 2
\* NUM_PARALLEL is 8 in the source
NUM_PARALLEL == 3
\* worker_threads(4) in the source
WORKER_THREADS == 2
\* NUM_ROWS is 100 in the source
NUM_ROWS == 2
\* Uniform::from(0..i64::MAX): the sampled values lie in 0..MaxInt-1
MaxInt == 5
\* the longest elapsed time of an iteration, in clock units
MaxElapsed == 3

RNG_SEED == 42

Strategies == {"test", "async_test", "async_test2"}
AsyncStrategies == {"async_test", "async_test2"}

\* the life of one unit of work (a do_work call or a spawned do_async_work)
TaskStates == {"unissued", "queued", "running", "ok", "panicked", "hung", "joined"}

VARIABLES
    numRuns,      \* NUM_RUNS of this build
    pc,           \* the main thread's position
    strategy,     \* the strategy function main is in ("main" before the first)
    rng,          \* the ChaCha20Rng state
    a1, a2,       \* the two arrays built by main
    rt,           \* the tokio runtime: "none", "current_thread", "multi_thread",
                  \* or "failed" when build() returned Err
    iter,         \* per strategy: iterations whose elapsed time has been recorded
    task,         \* task[s][k][i]: unit i of iteration k of strategy s
    total_time,   \* the running total of the current strategy
    elapsed_log,  \* the start.elapsed() values the current strategy has recorded
    invocations,  \* per strategy: how many times eq_dyn has been called
    call_args,    \* per strategy: the distinct argument pairs eq_dyn was called with
    defect_seen,  \* some unwrap() or assert_eq! of a unit of work has failed
    diag,         \* the panic message that ended the process: the failed check
                  \* and its source line (NoDiagnostic while it runs)
    out           \* the lines printed to standard output

vars == <<numRuns, pc, strategy, rng, a1, a2, rt, iter, task, total_time,
          elapsed_log, invocations, call_args, defect_seen, diag, out>>

(* ---------------------------------------------------------------------- *)
(* Workload generation                                                    *)
(* ---------------------------------------------------------------------- *)

\* ChaCha20Rng::seed_from_u64: a generator is its key and its stream position
seed_from_u64(seed) == [key |-> seed, pos |-> 0]

\* between.sample(rng): the value at the stream position, a function of the
\* key and the position alone, in [0, MaxInt); the position advances by one
sample(r) ==
    [val |-> (r.key + 3 * r.pos) % MaxInt,
     rng |-> [r EXCEPT !.pos = r.pos + 1]]

RECURSIVE draw(_, _)
\* (0..num_rows).map(|_| between.sample(rng)): num_rows successive samples
draw(r, n) ==
    IF n = 0 THEN [arr |-> <<>>, rng |-> r]
    ELSE LET s    == sample(r)
             rest == draw(s.rng, n - 1)
         IN  [arr |-> <<s.val>> \o rest.arr, rng |-> rest.rng]

\* a generator made afresh from the seed inside every call
random_array_Reseeded(r, num_rows) == draw([r EXCEPT !.pos = 0], num_rows)

\* random_array: every value present (Some), collected in draw order
random_array(r, num_rows) == draw(r, num_rows)

(* ---------------------------------------------------------------------- *)
(* The unit of work                                                       *)
(* ---------------------------------------------------------------------- *)

\* what a sound eq_dyn returns: Err on a length mismatch, else the
\* elementwise equality
eq_dyn(left, right) ==
    IF Len(left) # Len(right)
    THEN [ok |-> FALSE, val |-> <<>>]
    ELSE [ok |-> TRUE, val |-> [i \in 1..Len(left) |-> left[i] = right[i]]]

\* the answers the external primitive may give to a call that returns: the
\* sound one, an Err, or a result one element short
EqDynAnswers(left, right) ==
    LET good == eq_dyn(left, right)
    IN  {good, [ok |-> FALSE, val |-> <<>>]}
        \cup (IF good.ok /\ Len(good.val) > 0
              THEN {[ok |-> TRUE, val |-> SubSeq(good.val, 1, Len(good.val) - 1)]}
              ELSE {})

\* the check of do_work / do_async_work that fails on answer cmp:
\* unwrap(), then the two assert_eq!, in source order; "none" when all pass
FailedCheck(cmp, left, right) ==
    IF ~cmp.ok THEN "unwrap"
    ELSE IF Len(cmp.val) # Len(left) THEN "assert_left"
    ELSE IF Len(cmp.val) # Len(right) THEN "assert_right"
    ELSE "none"

\* a comparison that writes into the array it was handed
Borrowed_Overwritten(arr) == [i \in 1..Len(arr) |-> 0]

\* eq_dyn(left.as_ref(), right.as_ref()): the primitive is handed shared
\* references; an array after the call is the array before it
Borrowed(arr) == arr

\* the first handle passed twice
WorkArgs_SameArray == <<a1, a1>>

\* the arguments every unit of work is called with: clones of the two handles
WorkArgs == <<a1, a2>>

(* ---------------------------------------------------------------------- *)
(* Helpers over the state                                                 *)
(* ---------------------------------------------------------------------- *)

Units == 1..NUM_PARALLEL

\* the iteration in progress of the current strategy (the loop variable + 1)
CurIter == iter[strategy] + 1

\* the units of the iteration in progress
Batch == task[strategy][CurIter]

SetTask(i, st) == [task EXCEPT ![strategy][CurIter][i] = st]

\* the range position of (0..NUM_PARALLEL): the first unit not yet issued
Unissued == {i \in Units : Batch[i] = "unissued"}
NextUnit == CHOOSE i \in Unissued : \A j \in Unissued : i <= j

\* units occupying a thread: executing, or stuck in a call that never returns
Busy(s, k) == {i \in Units : task[s][k][i] \in {"running", "hung"}}

Line(kind, who, runs, dur) == [kind |-> kind, who |-> who, runs |-> runs, dur |-> dur]

\* main leaving out the call of async_test
NextStrategy_Skip(s) == "async_test2"

\* the order in which main calls the strategy functions
NextStrategy(s) == IF s = "test" THEN "async_test" ELSE "async_test2"

\* the runtime each builder builds
RuntimeKind(s) == IF s = "async_test" THEN "current_thread" ELSE "multi_thread"

\* a panic message that names no source line
PanicLine_Unlocated(s, chk) == 0

\* the source line a panic of the main thread names: the line of the
\* unwrap(), assert_eq! or division that failed, in the function strategy s
\* is executing
PanicLine(s, chk) ==
    CASE chk = "unwrap" /\ s = "test"                -> 33
      [] chk = "assert_left" /\ s = "test"           -> 34
      [] chk = "assert_right" /\ s = "test"          -> 35
      [] chk = "unwrap" /\ s # "test"                -> 40
      [] chk = "assert_left" /\ s # "test"           -> 41
      [] chk = "assert_right" /\ s # "test"          -> 42
      [] chk = "build_unwrap" /\ s = "async_test"    -> 100
      [] chk = "build_unwrap" /\ s = "async_test2"   -> 133
      [] chk = "div_by_zero" /\ s = "test"           -> 89
      [] chk = "div_by_zero" /\ s = "async_test"     -> 120
      [] chk = "div_by_zero" /\ s = "async_test2"    -> 152
      [] OTHER                                       -> 0

NoDiagnostic == [check |-> "none", at |-> 0]

\* what the panic hook prints when check chk fails in iteration k of
\* strategy s: the check's message and its source line; nothing of k
Diagnostic(chk, s, k) == [check |-> chk, at |-> PanicLine(s, chk)]

\* the main thread panics: the process ends abnormally with that diagnostic
Abort(why) == pc' = "aborted" /\ diag' = Diagnostic(why, strategy, CurIter)

(* ---------------------------------------------------------------------- *)
(* main                                                                   *)
(* ---------------------------------------------------------------------- *)

SetupA1 ==
    /\ pc = "setup_a1"
    /\ LET r == random_array(rng, NUM_ROWS)
       IN  a1' = r.arr /\ rng' = r.rng
    /\ out' = Append(out, Line("setup", "a1", 0, 0))
    /\ pc' = "setup_a2"
    /\ UNCHANGED <<numRuns, strategy, a2, rt, iter, task, total_time, elapsed_log,
                   invocations, call_args, defect_seen, diag>>

SetupA2 ==
    /\ pc = "setup_a2"
    /\ LET r == random_array(rng, NUM_ROWS)
       IN  a2' = r.arr /\ rng' = r.rng
    /\ out' = Append(out, Line("setup", "a2", 0, 0))
    /\ pc' = "begin"
    /\ strategy' = "test"
    /\ UNCHANGED <<numRuns, a1, rt, iter, task, total_time, elapsed_log,
                   invocations, call_args, defect_seen, diag>>

(* ---------------------------------------------------------------------- *)
(* The three strategy functions: prologue                                 *)
(* ---------------------------------------------------------------------- *)

\* a total shared by the strategies and never reset
InitialTotal_CarriedOver == total_time

\* the value a strategy's running total starts from
InitialTotal == 0

\* println!("Begin ..."); test goes straight to its iterations, the async
\* strategies build their runtime first
Begin ==
    /\ pc = "begin"
    /\ out' = Append(out, Line("begin", strategy, 0, 0))
    /\ IF strategy = "test"
       THEN /\ pc' = "loop"
            /\ total_time' = InitialTotal
            /\ elapsed_log' = <<>>
       ELSE /\ pc' = "build"
            /\ UNCHANGED <<total_time, elapsed_log>>
    /\ UNCHANGED <<numRuns, strategy, rng, a1, a2, rt, iter, task,
                   invocations, call_args, defect_seen, diag>>

\* the builder's Err ignored
UnwrapBuild_Ignore(built) == "loop"

\* .build().unwrap(): where the main thread goes on the builder's answer
UnwrapBuild(built) == IF built THEN "loop" ELSE "aborted"

\* Builder::new_*().build().unwrap(), then entering block_on
Build ==
    /\ pc = "build"
    /\ \E built \in BOOLEAN :
        /\ rt' = IF built THEN RuntimeKind(strategy) ELSE "failed"
        /\ pc' = UnwrapBuild(built)
        /\ diag' = IF pc' = "aborted"
                   THEN Diagnostic("build_unwrap", strategy, CurIter)
                   ELSE diag
    /\ total_time' = InitialTotal
    /\ elapsed_log' = <<>>
    /\ UNCHANGED <<numRuns, strategy, rng, a1, a2, iter, task,
                   invocations, call_args, defect_seen, out>>

\* the head of the iteration loop with iterations left: Instant::now()
IterStart ==
    /\ pc = "loop"
    /\ iter[strategy] < numRuns
    /\ pc' = "dispatch"
    /\ UNCHANGED <<numRuns, strategy, rng, a1, a2, rt, iter, task, total_time,
                   elapsed_log, invocations, call_args, defect_seen, diag, out>>

(* ---------------------------------------------------------------------- *)
(* test: the sequential batch                                             *)
(* ---------------------------------------------------------------------- *)

\* work handed off without waiting for it
PreviousReturned_Detached == TRUE

\* do_work is a plain call: the loop goes on once the call has returned
PreviousReturned == Busy(strategy, CurIter) = {}

\* for _ in 0..NUM_PARALLEL { do_work(a1.clone(), a2.clone()) }: the next
\* call is made once the previous one has returned; eq_dyn is entered
DoWorkCall ==
    /\ pc = "dispatch"
    /\ strategy = "test"
    /\ Unissued # {}
    /\ PreviousReturned
    /\ task' = SetTask(NextUnit, "running")
    /\ invocations' = [invocations EXCEPT ![strategy] = @ + 1]
    /\ call_args' = [call_args EXCEPT ![strategy] = @ \cup {WorkArgs}]
    /\ UNCHANGED <<numRuns, pc, strategy, rng, a1, a2, rt, iter, total_time,
                   elapsed_log, defect_seen, diag, out>>

\* eq_dyn returns and do_work checks the answer; a failed check panics on
\* the main thread, which ends the process
DoWorkReturn ==
    /\ strategy = "test"
    /\ pc = "dispatch"
    /\ \E i \in Units :
        /\ Batch[i] = "running"
        /\ \E cmp \in EqDynAnswers(WorkArgs[1], WorkArgs[2]) :
            LET chk == FailedCheck(cmp, WorkArgs[1], WorkArgs[2])
            IN  IF chk = "none"
                THEN /\ task' = SetTask(i, "ok")
                     /\ pc' = IF Unissued = {} THEN "await" ELSE pc
                     /\ UNCHANGED <<defect_seen, diag>>
                ELSE /\ task' = SetTask(i, "panicked")
                     /\ defect_seen' = TRUE
                     /\ Abort(chk)
    /\ a1' = Borrowed(a1)
    /\ a2' = Borrowed(a2)
    /\ UNCHANGED <<numRuns, strategy, rng, rt, iter, total_time,
                   elapsed_log, invocations, call_args, out>>

\* the for loop of test has run all its calls
LoopFinished(batch) == \A i \in Units : batch[i] = "ok"

(* ---------------------------------------------------------------------- *)
(* async_test / async_test2: spawn and join                               *)
(* ---------------------------------------------------------------------- *)

\* all units of strategy s that occupy a thread of its runtime
BusyIn(s) == {ki \in (1..MaxRuns) \X Units : ki[2] \in Busy(s, ki[1])}

\* a driver that lets the runtime run tasks between two of its spawns
DriverYielded_Eager == pc \in {"dispatch", "await"}

\* the driver future returned Pending: the runtime's thread is free for tasks
DriverYielded == pc = "await"

\* a pool that starts a thread for every queued task
CanRun_ThreadPerTask(s) ==
    /\ rt = RuntimeKind(s)
    /\ rt = "current_thread" => DriverYielded /\ BusyIn(s) = {}

\* every runtime run as a pool of WORKER_THREADS workers
CanRun_Pool(s) ==
    /\ rt = RuntimeKind(s)
    /\ Cardinality(BusyIn(s)) < WORKER_THREADS

\* whether the runtime of strategy s can start one more queued task now: the
\* current_thread runtime runs tasks on the block_on thread, one at a time and
\* only while the driver future is pending; the multi_thread runtime runs them
\* on its WORKER_THREADS workers
CanRun(s) ==
    /\ rt = RuntimeKind(s)
    /\ IF rt = "current_thread"
       THEN DriverYielded /\ BusyIn(s) = {}
       ELSE Cardinality(BusyIn(s)) < WORKER_THREADS

\* the driver polls the next future of the FuturesUnordered for the first
\* time: builder.spawn(do_async_work(..)) queues the task, the JoinHandle is
\* pending; after the last one the driver has nothing left to poll
Spawn ==
    /\ pc = "dispatch"
    /\ strategy \in AsyncStrategies
    /\ Unissued # {}
    /\ task' = SetTask(NextUnit, "queued")
    /\ pc' = IF Unissued = {NextUnit} THEN "await" ELSE pc
    /\ UNCHANGED <<numRuns, strategy, rng, a1, a2, rt, iter, total_time,
                   elapsed_log, invocations, call_args, defect_seen, diag, out>>

\* the runtime polls a queued task: do_async_work enters eq_dyn
TaskStart ==
    \E s \in AsyncStrategies, k \in 1..MaxRuns, i \in Units :
        /\ task[s][k][i] = "queued"
        /\ CanRun(s)
        /\ task' = [task EXCEPT ![s][k][i] = "running"]
        /\ invocations' = [invocations EXCEPT ![s] = @ + 1]
        /\ call_args' = [call_args EXCEPT ![s] = @ \cup {WorkArgs}]
        /\ UNCHANGED <<numRuns, pc, strategy, rng, a1, a2, rt, iter, total_time,
                       elapsed_log, defect_seen, diag, out>>

\* eq_dyn returns and do_async_work checks the answer; a failed check
\* panics inside the task: the runtime catches the unwind and the task's
\* JoinHandle resolves to Err(JoinError)
TaskFinish ==
    \E s \in AsyncStrategies, k \in 1..MaxRuns, i \in Units :
        /\ task[s][k][i] = "running"
        /\ rt = RuntimeKind(s)
        /\ \E cmp \in EqDynAnswers(WorkArgs[1], WorkArgs[2]) :
            LET chk == FailedCheck(cmp, WorkArgs[1], WorkArgs[2])
            IN  IF chk = "none"
                THEN task' = [task EXCEPT ![s][k][i] = "ok"] /\ UNCHANGED defect_seen
                ELSE task' = [task EXCEPT ![s][k][i] = "panicked"] /\ defect_seen' = TRUE
        /\ a1' = Borrowed(a1)
        /\ a2' = Borrowed(a2)
        /\ UNCHANGED <<numRuns, pc, strategy, rng, rt, iter, total_time,
                       elapsed_log, invocations, call_args, diag, out>>

\* what the spawning future does with the JoinHandle's result r ("ok" or
\* "panicked"):  let _ = ...await;  the result is dropped and the future is done
OnJoin(r) == "joined"

\* the driver is polled again and finds the JoinHandle of unit i resolved
Join ==
    /\ pc \in {"dispatch", "await"}
    /\ strategy \in AsyncStrategies
    /\ rt = "current_thread" => BusyIn(strategy) = {}
    /\ \E i \in Units :
        /\ Batch[i] \in {"ok", "panicked"}
        /\ task' = SetTask(i, OnJoin(Batch[i]))
    /\ UNCHANGED <<numRuns, pc, strategy, rng, a1, a2, rt, iter, total_time,
                   elapsed_log, invocations, call_args, defect_seen, diag, out>>

\* a barrier that returns on the first completion (select instead of join all)
JoinBarrier_First(batch) == \E i \in Units : batch[i] = "joined"

\* a barrier that returns once the batch is spawned (the collect not awaited)
JoinBarrier_Detached(batch) == \A i \in Units : batch[i] # "unissued"

\* a barrier that gives up on a unit that never completes (a timeout)
JoinBarrier_Timeout(batch) == \A i \in Units : batch[i] \in {"joined", "hung"}

\* .collect::<FuturesUnordered<_>>().collect().await is ready: every
\* spawning future of the batch is done
JoinBarrier(batch) == \A i \in Units : batch[i] = "joined"

\* the units stuck in a call of eq_dyn that never returns
Hung == {ski \in Strategies \X (1..MaxRuns) \X Units : task[ski[1]][ski[2]][ski[3]] = "hung"}

\* a call of eq_dyn never returns: the unit keeps its thread for good. One
\* stuck unit at a time is tracked: a second one behaves as a unit that is
\* still running, which no step is ever forced to finish
Hang ==
    \E s \in Strategies, k \in 1..MaxRuns, i \in Units :
        /\ task[s][k][i] = "running"
        /\ pc # "aborted"
        /\ Hung = {}
        /\ task' = [task EXCEPT ![s][k][i] = "hung"]
        /\ UNCHANGED <<numRuns, pc, strategy, rng, a1, a2, rt, iter, total_time,
                       elapsed_log, invocations, call_args, defect_seen, diag, out>>

(* ---------------------------------------------------------------------- *)
(* Timing, accumulation and the report                                    *)
(* ---------------------------------------------------------------------- *)

\* control has come back from the batch: the for loop of test is over, or
\* the collect().await of the async strategies is ready
BatchDone ==
    IF strategy = "test" THEN LoopFinished(Batch) ELSE JoinBarrier(Batch)

\* the values start.elapsed() may read: the shortest and the longest
ElapsedReadings == {0, MaxElapsed}

\* total_time = start.elapsed(): an assignment instead of +=
Accumulate_Overwrite(total, d) == d

\* .sum() over the iterations / total_time += start.elapsed()
Accumulate(total, d) == total + d

\* start.elapsed() is read and added to the total; back to the loop head
IterEnd ==
    /\ pc = "await"
    /\ BatchDone
    /\ \E d \in ElapsedReadings :
        /\ total_time' = Accumulate(total_time, d)
        /\ elapsed_log' = Append(elapsed_log, d)
    /\ iter' = [iter EXCEPT ![strategy] = @ + 1]
    /\ pc' = "loop"
    /\ UNCHANGED <<numRuns, strategy, rng, a1, a2, rt, task, invocations,
                   call_args, defect_seen, diag, out>>

\* total_time / NUM_RUNS: Duration divided by a u32, rounding down
Average(total, n) == total \div n

\* the report made one iteration early
RunsToReport_Early == numRuns - 1

\* the iterations a strategy runs before it reports
RunsToReport == numRuns

\* the two summary lines, in print order
SummaryLines(s, n, total) ==
    <<Line("ran", s, n, total), Line("average", s, 0, Average(total, n))>>

\* a runtime that outlives the function that built it
DroppedRuntime_Leaked == rt

\* the runtime left when a strategy function returns: `builder` is a local,
\* dropped (and its threads shut down) at the closing brace
DroppedRuntime == "none"

\* after the loop: println!("ran ..."), the division, println!("average ..."),
\* the function returns (dropping its runtime) and main calls the next
\* strategy or returns. Duration / 0 panics after the first line is out.
Report ==
    /\ pc = "loop"
    /\ iter[strategy] = RunsToReport
    /\ IF numRuns = 0
       THEN /\ out' = Append(out, Line("ran", strategy, numRuns, total_time))
            /\ Abort("div_by_zero")
            /\ UNCHANGED strategy
       ELSE /\ out' = out \o SummaryLines(strategy, numRuns, total_time)
            /\ IF strategy = "async_test2"
               THEN pc' = "exit" /\ UNCHANGED strategy
               ELSE pc' = "begin" /\ strategy' = NextStrategy(strategy)
            /\ UNCHANGED diag
    /\ rt' = DroppedRuntime
    /\ UNCHANGED <<numRuns, rng, a1, a2, iter, task, total_time, elapsed_log,
                   invocations, call_args, defect_seen>>

(* ---------------------------------------------------------------------- *)
(* The specifications                                                     *)
(* ---------------------------------------------------------------------- *)

InitWith(runs) ==
    /\ numRuns \in runs
    /\ pc = "setup_a1"
    /\ strategy = "main"
    /\ rng = seed_from_u64(RNG_SEED)
    /\ a1 = <<>>
    /\ a2 = <<>>
    /\ rt = "none"
    /\ iter = [s \in Strategies |-> 0]
    /\ task = [s \in Strategies |-> [k \in 1..MaxRuns |-> [i \in Units |-> "unissued"]]]
    /\ total_time = 0
    /\ elapsed_log = <<>>
    /\ invocations = [s \in Strategies |-> 0]
    /\ call_args = [s \in Strategies |-> {}]
    /\ defect_seen = FALSE
    /\ diag = NoDiagnostic
    /\ out = <<>>

\* the program as built: a positive number of runs
Init == InitWith(1..MaxRuns)

\* the program rebuilt with NUM_RUNS possibly 0
InitZeroRuns == InitWith(0..MaxRuns)

Next ==
    \/ SetupA1
    \/ SetupA2
    \/ Begin
    \/ Build
    \/ IterStart
    \/ DoWorkCall
    \/ DoWorkReturn
    \/ Spawn
    \/ TaskStart
    \/ TaskFinish
    \/ Join
    \/ Hang
    \/ IterEnd
    \/ Report

Spec == Init /\ [][Next]_vars

SpecZeroRuns == InitZeroRuns /\ [][Next]_vars

\* the program built with the largest run count
InitMaxRuns == InitWith({MaxRuns})

\* the threads are scheduled and the runtimes run their queued tasks: a step
\* that stays possible is eventually taken
FairSpec == InitMaxRuns /\ [][Next]_vars /\ WF_vars(Next)

(* ---------------------------------------------------------------------- *)
(* Properties                                                             *)
(* ---------------------------------------------------------------------- *)

\* a unit that has run to its end: returned, unwound, or already joined
Completed(st) == st \in {"ok", "panicked", "joined"}

\* a unit that has been issued and has not run to its end
Outstanding(st) == st \in {"queued", "running", "hung"}

\* this step reads start.elapsed() and records it
RecordsElapsed == \E d \in ElapsedReadings : elapsed_log' = Append(elapsed_log, d)

\* the summary of strategy s is on standard output
Reported(s) == \E j \in 1..Len(out) : out[j].kind = "ran" /\ out[j].who = s

\* C1: in every strategy and every iteration, the step that reads the
\* iteration's elapsed time and adds it to the total is taken only when all
\* NUM_PARALLEL units issued in that iteration have completed
C1_ElapsedAfterJoin ==
    [][RecordsElapsed =>
          /\ strategy \in Strategies
          /\ \A i \in Units : Completed(task[strategy][iter[strategy] + 1][i])
          /\ iter' = [iter EXCEPT ![strategy] = @ + 1]]_vars

\* C1 witness: the multi_thread strategy has recorded its second iteration
\* although a unit had panicked on the way
C1_Witness ==
    /\ strategy = "async_test2"
    /\ pc = "loop"
    /\ iter[strategy] = 2
    /\ Len(elapsed_log) = 2
    /\ defect_seen

\* this step issues no unit
IssuesNothing ==
    \A s \in Strategies, k \in 1..MaxRuns, i \in Units :
        task[s][k][i] = "unissued" => task'[s][k][i] = "unissued"

\* C2 (as claimed): once a unit of work has hit a defect, no further unit is
\* issued, no iteration is timed, nothing is printed, no later strategy
\* starts and the process does not exit normally
C2_DefectIsFatal ==
    [][defect_seen =>
          /\ IssuesNothing
          /\ ~RecordsElapsed
          /\ out' = out
          /\ strategy' = strategy
          /\ pc' # "exit"]_vars

\* C3: a strategy that has reported has called the comparison exactly
\* numRuns * NUM_PARALLEL times, and no strategy ever calls it more often or
\* with anything but the pair (a1, a2) built by main
C3_SameWork ==
    \A s \in Strategies :
        /\ invocations[s] <= numRuns * NUM_PARALLEL
        /\ call_args[s] \subseteq {<<a1, a2>>}
        /\ Reported(s) => /\ invocations[s] = numRuns * NUM_PARALLEL
                          /\ call_args[s] = {<<a1, a2>>}

\* C3 witness: all three strategies have reported after the largest run count
C3_Witness ==
    /\ pc = "exit"
    /\ numRuns = MaxRuns
    /\ \A s \in Strategies : Reported(s) /\ invocations[s] = MaxRuns * NUM_PARALLEL

\* C4: every unit that is issued and not completed belongs to the iteration
\* in progress of the strategy in progress, so that at the loop head, where
\* the next start instant is taken, nothing of an earlier iteration is left
C4_NoOverlap ==
    \A s \in Strategies, k \in 1..MaxRuns, i \in Units :
        Outstanding(task[s][k][i]) =>
            /\ s = strategy
            /\ k = iter[s] + 1
            /\ pc \in {"dispatch", "await"}

\* C4 witness: the second iteration of the multi_thread strategy has two
\* units executing at once, with the first iteration wholly joined
C4_Witness ==
    /\ strategy = "async_test2"
    /\ iter[strategy] = 1
    /\ Cardinality({i \in Units : task[strategy][2][i] = "running"}) = 2
    /\ \A i \in Units : task[strategy][1][i] = "joined"

\* the state of the strategy in progress, in the words of the design
Phase ==
    CASE pc = "loop"     -> "Idle"
      [] pc = "dispatch" -> "Dispatching"
      [] pc = "await"    -> "Awaiting"
      [] OTHER           -> "Outside"

\* the environment has misbehaved: a defect, a runtime that did not build,
\* or a call that never returns
Faulted == defect_seen \/ rt = "failed" \/ Hung # {}

\* the begin lines printed so far, in print order
RECURSIVE Begun(_)
Begun(lines) ==
    IF lines = <<>> THEN <<>>
    ELSE (IF Head(lines).kind = "begin" THEN <<Head(lines).who>> ELSE <<>>)
         \o Begun(Tail(lines))

\* main has returned after the three strategies ran in order, each for
\* exactly numRuns iterations, and each reported
Succeeded ==
    /\ pc = "exit"
    /\ diag = NoDiagnostic
    /\ Begun(out) = <<"test", "async_test", "async_test2">>
    /\ \A s \in Strategies : iter[s] = numRuns /\ Reported(s)

\* one step of a strategy's cycle: Idle -> Dispatching -> Awaiting -> Idle,
\* and out of Idle to Done only after numRuns iterations
PhaseStep ==
    /\ Phase = "Idle" =>
          \/ Phase' \in {"Idle", "Dispatching"}
          \/ Phase' = "Outside" /\ (iter[strategy] = numRuns \/ pc' = "aborted")
    /\ Phase = "Dispatching" =>
          \/ Phase' \in {"Dispatching", "Awaiting"}
          \/ pc' = "aborted"
    /\ Phase = "Awaiting" => Phase' \in {"Awaiting", "Idle"}
    /\ Phase = "Outside" => Phase' \in {"Outside", "Idle"}

\* C5: when no defect occurs, both runtimes build and every call returns,
\* the process eventually exits normally after running test, async_test and
\* async_test2 in that order, each for exactly numRuns iterations, every
\* strategy cycling Idle -> Dispatching -> Awaiting -> Idle
C5_RunsToSuccess ==
    /\ ([]~Faulted) => <>Succeeded
    /\ [][PhaseStep]_vars

\* C5 witness: a fault-free process has exited after the largest run count
C5_Witness ==
    /\ Succeeded
    /\ ~Faulted
    /\ numRuns = MaxRuns

\* the lines of a complete run, in order, by kind and subject
ExpectedOutput ==
    <<<<"setup", "a1">>, <<"setup", "a2">>,
      <<"begin", "test">>, <<"ran", "test">>, <<"average", "test">>,
      <<"begin", "async_test">>, <<"ran", "async_test">>, <<"average", "async_test">>,
      <<"begin", "async_test2">>, <<"ran", "async_test2">>, <<"average", "async_test2">>>>

\* C6: standard output is always a prefix of: begin, ran, average for test,
\* then the same for async_test, then for async_test2 (so each summary line
\* appears once, after its begin line and before the next strategy's), and
\* a strategy's "ran" line is out only once all numRuns iterations of it
\* have passed their barrier
C6_OutputOrder ==
    /\ Len(out) <= Len(ExpectedOutput)
    /\ \A j \in 1..Len(out) :
        /\ <<out[j].kind, out[j].who>> = ExpectedOutput[j]
        /\ out[j].kind = "ran" =>
              /\ out[j].runs = numRuns
              /\ iter[out[j].who] = numRuns
              /\ \A k \in 1..numRuns, i \in Units : Completed(task[out[j].who][k][i])

\* C6 witness: the complete output of a run of MaxRuns iterations
C6_Witness ==
    /\ Len(out) = Len(ExpectedOutput)
    /\ numRuns = MaxRuns
    /\ out[Len(out)].kind = "average"

RECURSIVE SumSeq(_)
SumSeq(s) == IF s = <<>> THEN 0 ELSE Head(s) + SumSeq(Tail(s))

\* C7: while a strategy iterates, its running total is the sum of the
\* elapsed times it has recorded, one per completed iteration; and a
\* reported average is the reported total divided by numRuns, that total
\* being the sum of all numRuns recorded elapsed times
C7_Accumulation ==
    /\ pc \in {"loop", "dispatch", "await"} =>
          /\ Len(elapsed_log) = iter[strategy]
          /\ total_time = SumSeq(elapsed_log)
    /\ \A j \in 1..Len(out) :
          out[j].kind = "average" =>
              /\ out[j - 1].kind = "ran"
              /\ out[j].dur = out[j - 1].dur \div numRuns
    /\ (out # <<>> /\ out[Len(out)].kind = "average") =>
          /\ Len(elapsed_log) = numRuns
          /\ out[Len(out) - 1].dur = SumSeq(elapsed_log)

\* C7 witness: a total of two long iterations has just been reported
C7_Witness ==
    /\ out # <<>>
    /\ out[Len(out)].kind = "average"
    /\ elapsed_log = <<MaxElapsed, MaxElapsed>>
    /\ out[Len(out) - 1].dur = 2 * MaxElapsed

\* C8 (as claimed): a build with zero runs never reaches the division of
\* the total by zero
C8_ZeroRunsHandled == numRuns = 0 => diag.check # "div_by_zero"

\* C9: when a runtime fails to build, the process has aborted on the
\* unwrap of the build, and the strategy has issued no unit, called the
\* comparison never, timed no iteration and printed no summary
C9_BuildFailureAborts ==
    rt = "failed" =>
        /\ pc = "aborted"
        /\ diag.check = "build_unwrap"
        /\ strategy \in AsyncStrategies
        /\ \A k \in 1..MaxRuns, i \in Units : task[strategy][k][i] = "unissued"
        /\ invocations[strategy] = 0
        /\ iter[strategy] = 0
        /\ \A j \in 1..Len(out) :
              out[j].who = strategy => out[j].kind = "begin"

\* C9 witness: the multi_thread runtime failed to build after two
\* strategies had reported
C9_Witness ==
    /\ rt = "failed"
    /\ strategy = "async_test2"
    /\ Reported("async_test")

\* C10: from the moment a unit is stuck in a call that never returns, it
\* stays stuck, the main thread stays inside that iteration's batch, and
\* no elapsed time is recorded, no iteration counted, nothing printed and
\* no other strategy entered
C10_HangStalls ==
    [][Hung # {} =>
          /\ Hung \subseteq Hung'
          /\ \A h \in Hung : h[1] = strategy /\ h[2] = iter[strategy] + 1
          /\ pc \in {"dispatch", "await"} /\ pc' \in {"dispatch", "await"}
          /\ ~RecordsElapsed
          /\ UNCHANGED <<iter, total_time, elapsed_log, out, strategy>>]_vars

\* C10 witness: in the multi_thread strategy every unit of the batch but
\* the stuck one has been joined, and the driver still waits
C10_Witness ==
    /\ strategy = "async_test2"
    /\ pc = "await"
    /\ \E i \in Units :
          /\ Batch[i] = "hung"
          /\ \A j \in Units \ {i} : Batch[j] = "joined"

\* main has built both arrays
ArraysBuilt == pc \notin {"setup_a1", "setup_a2"}

\* the units that hold clones of the two handles: issued and not yet over
Readers ==
    {ski \in Strategies \X (1..MaxRuns) \X Units :
        Outstanding(task[ski[1]][ski[2]][ski[3]])}

\* C11: once main has built the two arrays no step changes either of them,
\* whichever unit runs on whichever thread; each keeps its NUM_ROWS values;
\* and every unit that holds the arrays is over before main returns, so
\* the arrays outlive all three strategies
C11_ArraysImmutable ==
    [][ArraysBuilt =>
          /\ a1' = a1 /\ a2' = a2
          /\ Len(a1) = NUM_ROWS /\ Len(a2) = NUM_ROWS
          /\ pc' = "exit" => Readers' = {}]_vars

\* C11 witness: two pool workers are inside the comparison at once, on the
\* same two arrays, in the second iteration of the third strategy
C11_Witness ==
    /\ strategy = "async_test2"
    /\ iter[strategy] = 1
    /\ Cardinality({i \in Units : Batch[i] = "running"}) = 2
    /\ call_args[strategy] = {<<a1, a2>>}
    /\ Len(a1) = NUM_ROWS

\* the checks whose failure panics
Checks == {"unwrap", "assert_left", "assert_right", "build_unwrap", "div_by_zero"}

\* the process has ended on the panic of a unit of work
AbortedOnDefect ==
    /\ pc = "aborted"
    /\ \E s \in Strategies, k \in 1..MaxRuns, i \in Units : task[s][k][i] = "panicked"

\* C12 (as claimed): the diagnostic of a run aborted by a defect is that of
\* one check, one strategy and one iteration only
C12_DiagnosticComplete ==
    AbortedOnDefect =>
        \A chk \in Checks, s \in Strategies, k \in 1..MaxRuns :
            Diagnostic(chk, s, k) = diag =>
                chk = diag.check /\ s = strategy /\ k = iter[strategy] + 1

\* C12 (amended): the diagnostic of a run aborted by a defect names one of
\* the three checks of do_work by its message and its line, and is that of
\* one check and one strategy only (test, the only caller of do_work)
C12_DiagnosticNamesCheck ==
    AbortedOnDefect =>
        /\ strategy = "test"
        /\ \E i \in Units : task[strategy][iter[strategy] + 1][i] = "panicked"
        /\ <<diag.check, diag.at>> \in
              {<<"unwrap", 33>>, <<"assert_left", 34>>, <<"assert_right", 35>>}
        /\ \A chk \in Checks, s \in Strategies, k \in 1..MaxRuns :
              Diagnostic(chk, s, k) = diag => chk = diag.check /\ s = strategy

\* C12 witness: test aborted in its second iteration on the shape check
C12_Witness ==
    /\ AbortedOnDefect
    /\ iter["test"] = 1
    /\ diag.check = "assert_left"

\* the generator that has produced n values from the seed RNG_SEED
SeededAt(n) == [key |-> RNG_SEED, pos |-> n]

\* C13: in every run, whatever the run count and whatever the environment
\* does, the generator starts from the seed RNG_SEED, a1 is the first
\* NUM_ROWS values of its stream and a2 the next NUM_ROWS, so two runs hold
\* the same arrays; and a call of random_array leaves of the generator
\* nothing but its position, advanced by NUM_ROWS
C13_Deterministic ==
    /\ pc = "setup_a1" => rng = SeededAt(0) /\ a1 = <<>> /\ a2 = <<>>
    /\ pc = "setup_a2" =>
          /\ rng = SeededAt(NUM_ROWS)
          /\ a1 = draw(SeededAt(0), NUM_ROWS).arr
          /\ a2 = <<>>
    /\ ArraysBuilt =>
          /\ rng = SeededAt(2 * NUM_ROWS)
          /\ a1 = draw(SeededAt(0), NUM_ROWS).arr
          /\ a2 = draw(SeededAt(NUM_ROWS), NUM_ROWS).arr

\* C13 witness: both arrays are built, of NUM_ROWS values each and
\* different, and the first strategy is about to begin
C13_Witness ==
    /\ pc = "begin"
    /\ strategy = "test"
    /\ Len(a1) = NUM_ROWS /\ Len(a2) = NUM_ROWS
    /\ a1 # a2
    /\ rng.pos = 2 * NUM_ROWS

\* C14: in the sequential strategy at most one unit exists at a time: no
\* unit is ever queued or joined, a unit is issued only when all units
\* before it in the batch have returned, and when the loop is over every
\* unit has returned, so nothing is left to await
C14_SequentialOneAtATime ==
    \A k \in 1..MaxRuns :
        /\ Cardinality({i \in Units : Outstanding(task["test"][k][i])}) <= 1
        /\ \A i \in Units :
            /\ task["test"][k][i] \notin {"queued", "joined"}
            /\ task["test"][k][i] # "unissued" =>
                  \A j \in 1..(i - 1) : task["test"][k][j] = "ok"
        /\ (strategy = "test" /\ pc = "await" /\ k = iter["test"] + 1) =>
              \A i \in Units : task["test"][k][i] = "ok"

\* C14 witness: the last call of a batch of test is executing, all the
\* others have returned
C14_Witness ==
    /\ strategy = "test"
    /\ pc = "dispatch"
    /\ iter["test"] = 1
    /\ Batch[NUM_PARALLEL] = "running"
    /\ \A j \in 1..(NUM_PARALLEL - 1) : Batch[j] = "ok"

\* the units of strategy s in state st
UnitsIn(s, st) ==
    {ki \in (1..MaxRuns) \X Units : task[s][ki[1]][ki[2]] = st}

\* C15: on the current_thread runtime at most one spawned task is
\* executing at any moment, and while one is executing no other task
\* starts, the driver spawns nothing and joins nothing and does not move on:
\* the only thing that happens is that task's own end
C15_NoInterleaving ==
    [][rt = "current_thread" =>
          /\ Cardinality(BusyIn("async_test")) <= 1
          /\ Cardinality(BusyIn("async_test"))' <= 1
          /\ BusyIn("async_test") # {} =>
                /\ UnitsIn("async_test", "running")' \subseteq UnitsIn("async_test", "running")
                /\ UnitsIn("async_test", "joined")' = UnitsIn("async_test", "joined")
                /\ IssuesNothing
                /\ pc' = pc
                /\ UNCHANGED <<iter, total_time, elapsed_log, out>>]_vars

\* C15 witness: on the current_thread runtime one task has run to its end
\* and is not yet joined, the next is executing, a third is still queued
C15_Witness ==
    /\ strategy = "async_test"
    /\ rt = "current_thread"
    /\ \E i, j, l \in Units :
          /\ Batch[i] = "ok"
          /\ Batch[j] = "running"
          /\ Batch[l] = "queued"

\* C16: the pool of the multi_thread strategy has WORKER_THREADS workers,
\* fewer than the NUM_PARALLEL units of a batch: once the driver awaits,
\* the whole batch has been handed to the pool, up to NUM_PARALLEL units are
\* outstanding, and never more than WORKER_THREADS of them are executing
C16_PoolBounded ==
    /\ WORKER_THREADS < NUM_PARALLEL
    /\ Cardinality(BusyIn("async_test2")) <= WORKER_THREADS
    /\ Cardinality(UnitsIn("async_test2", "queued")) + Cardinality(BusyIn("async_test2"))
          <= NUM_PARALLEL
    /\ (strategy = "async_test2" /\ pc = "await") =>
          \A i \in Units : Batch[i] # "unissued"

\* C16 witness: a whole batch is outstanding at once: WORKER_THREADS units
\* executing, the remaining ones queued behind them
C16_Witness ==
    /\ strategy = "async_test2"
    /\ Cardinality(UnitsIn("async_test2", "running")) = WORKER_THREADS
    /\ Cardinality(UnitsIn("async_test2", "queued")) = NUM_PARALLEL - WORKER_THREADS

\* C17: a strategy starts from nothing but the arrays: when it begins no
\* runtime and no unit of an earlier strategy is left, before its first
\* iteration is recorded its total is zero, and the total it reports is the
\* sum of its own numRuns elapsed times, whatever the earlier strategies
\* recorded
C17_NothingCarriedOver ==
    /\ pc = "begin" => rt = "none" /\ Readers = {}
    /\ (pc \in {"loop", "dispatch", "await"} /\ iter[strategy] = 0) =>
          total_time = 0 /\ elapsed_log = <<>>
    /\ \A j \in 1..Len(out) :
          out[j].kind = "ran" => out[j].dur <= numRuns * MaxElapsed
    /\ (out # <<>> /\ out[Len(out)].kind = "average") =>
          /\ out[Len(out) - 1].dur = SumSeq(elapsed_log)
          /\ out[Len(out)].dur = SumSeq(elapsed_log) \div numRuns

\* C17 witness: the third strategy reports a zero total after the first two
\* reported the largest possible one
C17_Witness ==
    /\ pc = "exit"
    /\ numRuns = MaxRuns
    /\ \A j \in 1..Len(out) :
          out[j].kind = "ran" =>
              out[j].dur = (IF out[j].who = "async_test2" THEN 0 ELSE MaxRuns * MaxElapsed)

\* the units of iteration k of strategy s that are past the runtime's queue
Started(s, k) == {i \in Units : task[s][k][i] \notin {"unissued", "queued"}}

\* C18: in async_test no task of an iteration begins executing before all
\* NUM_PARALLEL tasks of that iteration have been submitted: while a unit of
\* the iteration is still unissued none of its units has started, and the
\* driver is past its last spawn whenever one is executing
C18_AllSubmittedFirst ==
    /\ \A k \in 1..MaxRuns :
          Started("async_test", k) # {} =>
              \A i \in Units : task["async_test"][k][i] # "unissued"
    /\ BusyIn("async_test") # {} => pc = "await"

\* C18 witness: the first task of an async_test iteration executes while all
\* the others are submitted and waiting in the queue
C18_Witness ==
    /\ strategy = "async_test"
    /\ Cardinality(UnitsIn("async_test", "running")) = 1
    /\ Cardinality(UnitsIn("async_test", "queued")) = NUM_PARALLEL - 1

\* C19: no runtime exists during setup, during test, or while a strategy
\* begins; the current_thread runtime exists only inside async_test, after
\* test reported; the multi_thread pool exists only inside async_test2, after
\* async_test reported; and a unit of a strategy is outstanding or executes
\* only while that strategy is the running one and its own runtime is up
C19_OneContext ==
    /\ (strategy \in {"main", "test"} \/ pc \in {"begin", "build", "exit"}) => rt = "none"
    /\ rt = "current_thread" => strategy = "async_test" /\ Reported("test")
    /\ rt = "multi_thread" => strategy = "async_test2" /\ Reported("async_test")
    /\ \A s \in AsyncStrategies :
          BusyIn(s) # {} => strategy = s /\ rt = RuntimeKind(s)
    /\ \A r \in Readers : r[1] = strategy

\* C19 witness: a pool worker executes a task of async_test2 after the
\* current_thread runtime finished all its tasks and was dropped
C19_Witness ==
    /\ strategy = "async_test2"
    /\ rt = "multi_thread"
    /\ BusyIn("async_test2") # {}
    /\ BusyIn("async_test") = {}
    /\ Reported("async_test")

====
